---- MODULE Spec2Model ----
(***************************************************************************)
(* Session / authorization manager and login rate limiter of the           *)
(* multi-app dashboard (src/auth/session.py, src/auth/login.py,            *)
(* src/utils/rate_limiter.py, src/config/database.py).                     *)
(*                                                                         *)
(* One browser session (Streamlit st.session_state) is modelled together   *)
(* with the remote store it reads.  Python's None is the empty set and a   *)
(* present value x is the singleton {x}.                                   *)
(***************************************************************************)
EXTENDS Integers, Sequences, FiniteSets, TLC

None == {}
Some(x) == {x}
Get(o) == CHOOSE x \in o : TRUE

(***************************************************************************)
(* Bounds of the model.                                                    *)
(***************************************************************************)
MaxLog == 2          \* activity_logs rows kept before further writes fail
Epoch == 1           \* time.time() when the session starts
Horizon == 602       \* seconds of clock explored after Epoch
MaxCount == 6        \* failed attempts recorded on one key by direct calls
MaxPages == 5        \* pages of orders the shop holds
PerPage == 2         \* per_page: orders on a full page
MaxRequests == 7     \* requests for one page of a sequential fetch explored
MaxSeqPages == 3     \* pages of results the shop holds for a sequential fetch
MaxRows == 4         \* rows of an uploaded label table

(***************************************************************************)
(* Program constants.                                                      *)
(***************************************************************************)
MAX_ATTEMPTS == 5
LOCKOUT_DURATION_SECONDS == 300
ATTEMPT_WINDOW_SECONDS == 300

(***************************************************************************)
(* The universe: accounts of the Credential Store, catalog of modules.     *)
(***************************************************************************)
AuthUsers == {"u1", "u2"}
Roles == {"Admin", "Manager", "User"}
Passwords == {"pw", "bad"}

\* modules table rows in display_order; ModuleKeys adds a key that is not a
\* row of the table (the admin screens are routed by such keys, app.py:163-177)
ModuleOrder == <<"order_extractor", "stock_price_updater">>
Modules == {ModuleOrder[i] : i \in 1..Len(ModuleOrder)}
ModuleKeys == Modules \cup {"admin_modules"}

\* e-mail addresses are character strings; "a" and "b" stand for the two
\* accounts' addresses
RawEmails == {<<"a">>, <<"A", " ">>, <<"b">>}

auth_email(u) == IF u = "u1" THEN <<"a">> ELSE <<"b">>

\* str.lower() on one character / on a string
LowerChar(c) == CASE c = "A" -> "a" [] c = "B" -> "b" [] c = "C" -> "c" [] OTHER -> c
str_lower(s) == [i \in 1..Len(s) |-> LowerChar(s[i])]

\* str.strip()
RECURSIVE str_strip(_)
str_strip(s) ==
    IF s = <<>> THEN s
    ELSE IF Head(s) = " " THEN str_strip(Tail(s))
    ELSE IF s[Len(s)] = " " THEN str_strip(SubSeq(s, 1, Len(s) - 1))
    ELSE s

\* role_name.lower()
role_lower(r) == CASE r = "Admin" -> "admin" [] r = "Manager" -> "manager"
                   [] r = "User" -> "user" [] OTHER -> r

VARIABLES
    \* st.session_state of the session (SessionManager.init_session)
    authenticated, user, profile, accessible_modules, current_module,
    \* st.session_state["login_attempts_<email>"], by normalised e-mail
    login_attempts,
    \* time.time()
    now,
    \* the remote store
    user_profiles, user_module_permissions, modules, activity_logs,
    \* what the last handler returned and showed
    last,
    \* the local variables of the one call in progress in a feature module
    \* (None while none is)
    frame

session_vars == <<authenticated, user, profile, accessible_modules, current_module>>
store_vars == <<user_profiles, user_module_permissions, modules>>
vars == <<authenticated, user, profile, accessible_modules, current_module,
          login_attempts, now, user_profiles, user_module_permissions, modules,
          activity_logs, last, frame>>

(***************************************************************************)
(* Rate limiter (src/utils/rate_limiter.py).  la is the login_attempts     *)
(* part of the session state, t the value of time.time().                  *)
(***************************************************************************)
\* the key without the strip()
_get_lockout_key_no_strip(email) == str_lower(email)

_get_lockout_key(email) == str_strip(str_lower(email))

LockoutKeys == {_get_lockout_key(e) : e \in RawEmails}

\* Python truthiness of a float-or-None
Truthy(o) == o # None /\ Get(o) # 0

\* is_locked_out: the comparison current_time < lockout_data['locked_until']
\* raises TypeError when the key is present and locked_until is None
is_locked_out_raises(la, email, t) ==
    LET key == _get_lockout_key(email) IN
    /\ la[key] # None
    /\ Get(la[key]).locked_until = None

\* is_locked_out with the comparison turned round
is_locked_out_inverted(la, email, t) ==
    LET key == _get_lockout_key(email) IN
    /\ la[key] # None
    /\ Get(la[key]).locked_until # None
    /\ t > Get(Get(la[key]).locked_until)

is_locked_out(la, email, t) ==
    LET key == _get_lockout_key(email) IN
    /\ la[key] # None
    /\ Get(la[key]).locked_until # None
    /\ t < Get(Get(la[key]).locked_until)

\* is_locked_out without the lazy cleanup of an expired lockout
is_locked_out_state_no_cleanup(la, email, t) == la

\* the session state is_locked_out leaves behind
is_locked_out_state(la, email, t) ==
    LET key == _get_lockout_key(email) IN
    IF /\ la[key] # None
       /\ Get(la[key]).locked_until # None
       /\ ~(t < Get(Get(la[key]).locked_until))
    THEN [la EXCEPT ![key] = None]
    ELSE la

\* record_failed_attempt locking only past the threshold (> for >=)
record_failed_attempt_late(la, email, t) ==
    LET key == _get_lockout_key(email)
        d0 == IF la[key] = None
              THEN [attempts |-> 0, first_attempt |-> None, locked_until |-> None]
              ELSE Get(la[key])
    IN
    IF Truthy(d0.first_attempt) /\ t - Get(d0.first_attempt) > ATTEMPT_WINDOW_SECONDS
    THEN [la EXCEPT ![key] =
            Some([attempts |-> 1, first_attempt |-> Some(t), locked_until |-> None])]
    ELSE
        LET d1 == [d0 EXCEPT !.first_attempt = IF Truthy(@) THEN @ ELSE Some(t),
                             !.attempts = @ + 1]
            d2 == IF d1.attempts > MAX_ATTEMPTS
                  THEN [d1 EXCEPT !.locked_until = Some(t + LOCKOUT_DURATION_SECONDS)]
                  ELSE d1
        IN [la EXCEPT ![key] = Some(d2)]

\* record_failed_attempt with the window closing at its last second (>= for >)
record_failed_attempt_closed(la, email, t) ==
    LET key == _get_lockout_key(email)
        d0 == IF la[key] = None
              THEN [attempts |-> 0, first_attempt |-> None, locked_until |-> None]
              ELSE Get(la[key])
    IN
    IF Truthy(d0.first_attempt) /\ t - Get(d0.first_attempt) >= ATTEMPT_WINDOW_SECONDS
    THEN [la EXCEPT ![key] =
            Some([attempts |-> 1, first_attempt |-> Some(t), locked_until |-> None])]
    ELSE
        LET d1 == [d0 EXCEPT !.first_attempt = IF Truthy(@) THEN @ ELSE Some(t),
                             !.attempts = @ + 1]
            d2 == IF d1.attempts >= MAX_ATTEMPTS
                  THEN [d1 EXCEPT !.locked_until = Some(t + LOCKOUT_DURATION_SECONDS)]
                  ELSE d1
        IN [la EXCEPT ![key] = Some(d2)]

\* record_failed_attempt that never lets the window expire
record_failed_attempt_no_expiry(la, email, t) ==
    LET key == _get_lockout_key(email)
        d0 == IF la[key] = None
              THEN [attempts |-> 0, first_attempt |-> None, locked_until |-> None]
              ELSE Get(la[key])
        d1 == [d0 EXCEPT !.first_attempt = IF Truthy(@) THEN @ ELSE Some(t),
                         !.attempts = @ + 1]
        d2 == IF d1.attempts >= MAX_ATTEMPTS
              THEN [d1 EXCEPT !.locked_until = Some(t + LOCKOUT_DURATION_SECONDS)]
              ELSE d1
    IN [la EXCEPT ![key] = Some(d2)]

\* record_failed_attempt whose window reset keeps the old lockout-until time
record_failed_attempt_keeps_lock(la, email, t) ==
    LET key == _get_lockout_key(email)
        d0 == IF la[key] = None
              THEN [attempts |-> 0, first_attempt |-> None, locked_until |-> None]
              ELSE Get(la[key])
    IN
    IF Truthy(d0.first_attempt) /\ t - Get(d0.first_attempt) > ATTEMPT_WINDOW_SECONDS
    THEN [la EXCEPT ![key] =
            Some([attempts |-> 1, first_attempt |-> Some(t),
                  locked_until |-> d0.locked_until])]
    ELSE
        LET d1 == [d0 EXCEPT !.first_attempt = IF Truthy(@) THEN @ ELSE Some(t),
                             !.attempts = @ + 1]
            d2 == IF d1.attempts >= MAX_ATTEMPTS
                  THEN [d1 EXCEPT !.locked_until = Some(t + LOCKOUT_DURATION_SECONDS)]
                  ELSE d1
        IN [la EXCEPT ![key] = Some(d2)]

record_failed_attempt(la, email, t) ==
    LET key == _get_lockout_key(email)
        d0 == IF la[key] = None
              THEN [attempts |-> 0, first_attempt |-> None, locked_until |-> None]
              ELSE Get(la[key])
    IN
    IF Truthy(d0.first_attempt) /\ t - Get(d0.first_attempt) > ATTEMPT_WINDOW_SECONDS
    THEN [la EXCEPT ![key] =
            Some([attempts |-> 1, first_attempt |-> Some(t), locked_until |-> None])]
    ELSE
        LET d1 == [d0 EXCEPT !.first_attempt = IF Truthy(@) THEN @ ELSE Some(t),
                             !.attempts = @ + 1]
            d2 == IF d1.attempts >= MAX_ATTEMPTS
                  THEN [d1 EXCEPT !.locked_until = Some(t + LOCKOUT_DURATION_SECONDS)]
                  ELSE d1
        IN [la EXCEPT ![key] = Some(d2)]

record_successful_login(la, email) ==
    [la EXCEPT ![_get_lockout_key(email)] = None]

\* get_remaining_attempts: raises exactly when its is_locked_out call raises
get_remaining_attempts(la, email, t) ==
    LET key == _get_lockout_key(email)
        la1 == is_locked_out_state(la, email, t)
    IN
    IF is_locked_out(la, email, t) THEN 0
    ELSE IF la1[key] # None
         THEN (IF MAX_ATTEMPTS - Get(la1[key]).attempts > 0
               THEN MAX_ATTEMPTS - Get(la1[key]).attempts ELSE 0)
         ELSE MAX_ATTEMPTS

(***************************************************************************)
(* Store reads (src/config/database.py).                                   *)
(***************************************************************************)
\* a module dict as the session reads it: only its module_key is ever read
\* (session.py:313)
module_row(m) == [module_key |-> m]

\* select * from user_details where id = user_id
get_user_profile(user_id) == user_profiles[user_id]

\* rows of the user_accessible_modules view for one user, by display_order:
\* the modules for which a grant row exists
user_accessible_modules(user_id) ==
    LET granted(m) == m \in user_module_permissions[user_id]
        keys == SelectSeq(ModuleOrder, granted)
    IN [i \in 1..Len(keys) |-> module_row(keys[i])]

\* UserDB.get_user_modules: the view's rows, [] when the read throws
get_user_modules(user_id, ok) == IF ok THEN user_accessible_modules(user_id) ELSE <<>>

\* select * from modules order by display_order  (no is_active filter)
all_module_rows == [i \in 1..Len(ModuleOrder) |-> module_row(ModuleOrder[i])]

\* select * from modules where is_active order by display_order
active_module_rows ==
    LET active(m) == modules[m]
        keys == SelectSeq(ModuleOrder, active)
    IN [i \in 1..Len(keys) |-> module_row(keys[i])]

\* ModuleDB.get_all_modules.  Its st.cache_data entry holds rows of the same
\* keys as the table (no operation here adds or removes a module), so the
\* cached and the fresh answer agree on every module_key
get_all_modules(ok) == IF ok THEN all_module_rows ELSE <<>>

\* ModuleDB.get_active_modules
get_active_modules(ok) == IF ok THEN active_module_rows ELSE <<>>

\* the store-side check without the Admin test
db_has_module_access_no_admin(user_id, module_key) ==
    \E i \in 1..Len(user_accessible_modules(user_id)) :
        user_accessible_modules(user_id)[i].module_key = module_key

\* UserPermissionDB.has_module_access(user_id, module_key): the store-side check
db_has_module_access(user_id, module_key) ==
    LET user_profile == get_user_profile(user_id) IN
    IF user_profile # None /\ Get(user_profile).role_name = "Admin" THEN TRUE
    ELSE \E i \in 1..Len(user_accessible_modules(user_id)) :
            user_accessible_modules(user_id)[i].module_key = module_key

(***************************************************************************)
(* SessionManager (src/auth/session.py).                                   *)
(***************************************************************************)
\* the resolution step with the per-role rule of the superseded revision:
\* every role but "user" reads the whole catalog
_load_accessible_modules_by_role(user_id, prof, readOK) ==
    IF role_lower(prof.role_name) # "user"
    THEN get_all_modules(readOK)
    ELSE get_user_modules(user_id, readOK)

\* readOK: the store read of the module rows succeeds
_load_accessible_modules(user_id, prof, readOK) ==
    IF role_lower(prof.role_name) = "admin"
    THEN get_all_modules(readOK)
    ELSE get_user_modules(user_id, readOK)

is_admin_of(prof) == prof # None /\ role_lower(Get(prof).role_name) = "admin"

is_admin == is_admin_of(profile)

\* has_module_access without the admin short-circuit
has_module_access_no_admin(module_key) ==
    \E i \in 1..Len(accessible_modules) :
        accessible_modules[i].module_key = module_key

\* has_module_access with the legacy Manager tier treated like Admin
has_module_access_manager(module_key) ==
    IF profile # None /\ role_lower(Get(profile).role_name) \in {"admin", "manager"}
    THEN TRUE
    ELSE \E i \in 1..Len(accessible_modules) :
            accessible_modules[i].module_key = module_key

has_module_access(module_key) ==
    IF is_admin THEN TRUE
    ELSE \E i \in 1..Len(accessible_modules) :
            accessible_modules[i].module_key = module_key

(***************************************************************************)
(* Credential Store: supabase.auth.sign_in_with_password as login consumes *)
(* it.  fault is the text of the error the provider raises for reasons     *)
(* other than the credentials ("none": it raises nothing of the kind).     *)
(***************************************************************************)
ProviderFaults == {"none", "Email not confirmed", "User not found", "Connection refused"}

\* the account the credentials open, or None
sign_in_user(email, password) ==
    {u \in AuthUsers : auth_email(u) = _get_lockout_key(email) /\ password = "pw"}

\* the text of the exception sign-in raises, or None
sign_in_error(email, password, fault) ==
    IF fault # "none" THEN Some(fault)
    ELSE IF sign_in_user(email, password) = None THEN Some("Invalid login credentials")
    ELSE None

\* SessionManager.login, lines 118-129: the message for an exception text
login_error_message(error_message) ==
    IF error_message = "Invalid login credentials" THEN <<"Invalid email or password">>
    ELSE IF error_message = "Email not confirmed"
         THEN <<"Please verify your email address before logging in">>
    ELSE IF error_message = "User not found" THEN <<"No account found with this email">>
    ELSE <<"Login failed: ", error_message>>

\* login without the is_active test
login_return_no_active_check(email, password, fault) ==
    LET err == sign_in_error(email, password, fault)
        uid == Get(sign_in_user(email, password))
        prof == get_user_profile(uid)
    IN
    IF err # None THEN [success |-> FALSE, message |-> login_error_message(Get(err))]
    ELSE IF prof = None
         THEN [success |-> FALSE,
               message |-> <<"User profile not found. Please contact administrator.">>]
    ELSE [success |-> TRUE, message |-> <<"">>]

\* SessionManager.login: what it returns, [success, message]
login_return(email, password, fault) ==
    LET err == sign_in_error(email, password, fault)
        uid == Get(sign_in_user(email, password))
        prof == get_user_profile(uid)
    IN
    IF err # None THEN [success |-> FALSE, message |-> login_error_message(Get(err))]
    ELSE IF prof = None
         THEN [success |-> FALSE,
               message |-> <<"User profile not found. Please contact administrator.">>]
    ELSE IF ~Get(prof).is_active
         THEN [success |-> FALSE,
               message |-> <<"Your account is inactive. Please contact administrator.">>]
    ELSE [success |-> TRUE, message |-> <<"">>]

\* ActivityLogger.log: the table after a write that succeeds (ok) or throws
\* inside log, which swallows the exception
log_write(user_id, action_type, ok) ==
    IF ok /\ Len(activity_logs) < MaxLog
    THEN Append(activity_logs, [user_id |-> user_id, action_type |-> action_type])
    ELSE activity_logs

\* login in which a failing audit write undoes the login
login_blocked_by_log(email, password, fault, logOK, readOK) ==
    LET ret == login_return(email, password, fault)
        uid == Get(sign_in_user(email, password))
        prof == Get(get_user_profile(uid))
    IN
    IF ret.success /\ logOK
    THEN /\ authenticated' = TRUE
         /\ user' = Some([id |-> uid, email |-> auth_email(uid)])
         /\ profile' = Some(prof)
         /\ accessible_modules' = _load_accessible_modules(uid, prof, readOK)
         /\ activity_logs' = log_write(uid, "login", logOK)
         /\ UNCHANGED current_module
    ELSE UNCHANGED <<session_vars, activity_logs>>

\* SessionManager.login: its effect on the session, the cache and the log
login(email, password, fault, logOK, readOK) ==
    LET ret == login_return(email, password, fault)
        uid == Get(sign_in_user(email, password))
        prof == Get(get_user_profile(uid))
    IN
    IF ret.success
    THEN /\ authenticated' = TRUE
         /\ user' = Some([id |-> uid, email |-> auth_email(uid)])
         /\ profile' = Some(prof)
         /\ accessible_modules' = _load_accessible_modules(uid, prof, readOK)
         /\ activity_logs' = log_write(uid, "login", logOK)
         /\ UNCHANGED current_module
    ELSE UNCHANGED <<session_vars, activity_logs>>

(***************************************************************************)
(* handle_login (src/auth/login.py:150-190).                               *)
(***************************************************************************)
\* handle_login counting an attempt made during a lockout as one more failure
handle_login_body_counts_locked(email, password, fault, logOK, readOK) ==
    IF is_locked_out_raises(login_attempts, email, now)
    THEN /\ last' = [op |-> "handle_login", login_ret |-> None, shown |-> <<"TypeError">>]
         /\ UNCHANGED <<session_vars, login_attempts, now, store_vars,
                        activity_logs>>
    ELSE IF is_locked_out(login_attempts, email, now)
    THEN /\ last' = [op |-> "handle_login", login_ret |-> None, shown |-> <<"lockout">>]
         /\ login_attempts' = record_failed_attempt(login_attempts, email, now)
         /\ UNCHANGED <<session_vars, now, store_vars, activity_logs>>
    ELSE
        LET la1 == is_locked_out_state(login_attempts, email, now)
            ret == login_return(email, password, fault)
            la2 == record_failed_attempt(la1, email, now)
        IN
        /\ login(email, password, fault, logOK, readOK)
        /\ UNCHANGED <<now, store_vars>>
        /\ IF ret.success
           THEN /\ login_attempts' = record_successful_login(la1, email)
                /\ last' = [op |-> "handle_login", login_ret |-> Some(ret),
                            shown |-> <<"Login successful! Redirecting...">>]
           ELSE /\ login_attempts' = la2
                /\ last' = [op |-> "handle_login", login_ret |-> Some(ret),
                            shown |-> IF is_locked_out_raises(la2, email, now)
                                      THEN <<"TypeError">>
                                      ELSE IF get_remaining_attempts(la2, email, now) > 0
                                      THEN ret.message
                                      ELSE <<"lockout">>]

handle_login_body(email, password, fault, logOK, readOK) ==
    IF is_locked_out_raises(login_attempts, email, now)
    THEN \* TypeError out of is_locked_out: nothing else runs
         /\ last' = [op |-> "handle_login", login_ret |-> None, shown |-> <<"TypeError">>]
         /\ UNCHANGED <<session_vars, login_attempts, now, store_vars,
                        activity_logs>>
    ELSE IF is_locked_out(login_attempts, email, now)
    THEN /\ last' = [op |-> "handle_login", login_ret |-> None, shown |-> <<"lockout">>]
         /\ UNCHANGED <<session_vars, login_attempts, now, store_vars,
                        activity_logs>>
    ELSE
        LET la1 == is_locked_out_state(login_attempts, email, now)
            ret == login_return(email, password, fault)
            la2 == record_failed_attempt(la1, email, now)
        IN
        /\ login(email, password, fault, logOK, readOK)
        /\ UNCHANGED <<now, store_vars>>
        /\ IF ret.success
           THEN /\ login_attempts' = record_successful_login(la1, email)
                /\ last' = [op |-> "handle_login", login_ret |-> Some(ret),
                            shown |-> <<"Login successful! Redirecting...">>]
           ELSE /\ login_attempts' = la2
                /\ last' = [op |-> "handle_login", login_ret |-> Some(ret),
                            shown |-> IF is_locked_out_raises(la2, email, now)
                                      THEN <<"TypeError">>
                                      ELSE IF get_remaining_attempts(la2, email, now) > 0
                                      THEN ret.message
                                      ELSE <<"lockout">>]

handle_login(email, password) ==
    \* the login form is rendered only while not logged in (app.py:137-140)
    /\ ~authenticated
    \* the provider is reached only past the lockout check, the audit write and
    \* the module read only by a login that succeeds
    /\ LET blocked == \/ is_locked_out_raises(login_attempts, email, now)
                      \/ is_locked_out(login_attempts, email, now)
       IN \E fault \in IF blocked THEN {"none"} ELSE ProviderFaults :
          LET succeeds == ~blocked /\ login_return(email, password, fault).success
          IN \E logOK \in IF succeeds THEN BOOLEAN ELSE {TRUE},
                readOK \in IF succeeds THEN BOOLEAN ELSE {TRUE} :
                handle_login_body(email, password, fault, logOK, readOK)
    /\ UNCHANGED frame

(***************************************************************************)
(* SessionManager.logout (src/auth/session.py:236-257).                    *)
(***************************************************************************)
\* logout writing its audit entry whether or not the session holds a user
logout_log_unguarded ==
    \E logOK \in BOOLEAN :
    /\ activity_logs' = log_write(IF user # None THEN Get(user).id ELSE "anonymous",
                                  "logout", logOK)
    /\ authenticated' = FALSE
    /\ user' = None
    /\ profile' = None
    /\ accessible_modules' = <<>>
    /\ current_module' = None
    /\ last' = [op |-> "logout", login_ret |-> None, shown |-> <<>>]
    /\ UNCHANGED <<login_attempts, now, store_vars>>
    /\ UNCHANGED frame

\* logout whose clearing is skipped when the audit write fails
logout_blocked_by_log ==
    \E logOK \in BOOLEAN :
    /\ activity_logs' = IF user # None
                        THEN log_write(Get(user).id, "logout", logOK)
                        ELSE activity_logs
    /\ IF logOK
       THEN /\ authenticated' = FALSE
            /\ user' = None
            /\ profile' = None
            /\ accessible_modules' = <<>>
            /\ current_module' = None
       ELSE UNCHANGED session_vars
    /\ last' = [op |-> "logout", login_ret |-> None, shown |-> <<>>]
    /\ UNCHANGED <<login_attempts, now, store_vars>>
    /\ UNCHANGED frame

\* logout that forgets the user but keeps the cached profile and modules
logout_keeps_profile ==
    \E logOK \in BOOLEAN :
    /\ activity_logs' = IF user # None
                        THEN log_write(Get(user).id, "logout", logOK)
                        ELSE activity_logs
    /\ authenticated' = FALSE
    /\ user' = None
    /\ current_module' = None
    /\ last' = [op |-> "logout", login_ret |-> None, shown |-> <<>>]
    /\ UNCHANGED <<profile, accessible_modules, login_attempts, now, store_vars>>
    /\ UNCHANGED frame

logout ==
    \E logOK \in BOOLEAN :
    /\ activity_logs' = IF user # None
                        THEN log_write(Get(user).id, "logout", logOK)
                        ELSE activity_logs
    /\ authenticated' = FALSE
    /\ user' = None
    /\ profile' = None
    /\ accessible_modules' = <<>>
    /\ current_module' = None
    /\ last' = [op |-> "logout", login_ret |-> None, shown |-> <<>>]
    /\ UNCHANGED <<login_attempts, now, store_vars>>
    /\ UNCHANGED frame

\* SessionManager.set_current_module, called by the sidebar of a logged-in
\* session (app.py:137-144)
set_current_module(module_key) ==
    /\ authenticated
    /\ current_module' = Some(module_key)
    /\ UNCHANGED last
    /\ UNCHANGED <<authenticated, user, profile, accessible_modules, login_attempts,
                   now, store_vars, activity_logs>>
    /\ UNCHANGED frame

\* refresh_permissions: re-runs the resolution step for the current user
refresh_permissions ==
    /\ authenticated
    /\ \E readOK \in BOOLEAN :
         accessible_modules' = _load_accessible_modules(Get(user).id, Get(profile), readOK)
    /\ last' = [op |-> "refresh_permissions", login_ret |-> None, shown |-> <<>>]
    /\ UNCHANGED <<authenticated, user, profile, current_module, login_attempts,
                   now, store_vars, activity_logs>>
    /\ UNCHANGED frame

(***************************************************************************)
(* Store writes made from an administrator's session                       *)
(* (src/config/database.py).                                               *)
(***************************************************************************)
\* UserDB.update_user: no row, nothing updated
update_user(user_id, role_name, is_active) ==
    /\ user_profiles[user_id] # None
    /\ user_profiles' = [user_profiles EXCEPT ![user_id] =
                            Some([role_name |-> role_name, is_active |-> is_active])]
    /\ UNCHANGED last
    /\ UNCHANGED <<session_vars, login_attempts, now, user_module_permissions,
                   modules, activity_logs>>
    /\ UNCHANGED frame

\* UserPermissionDB.update_user_permission: upsert the grant row or delete it
update_user_permission(user_id, module_id, can_access) ==
    \* the user is picked from the rows of user_details (admin_panel.py:422-432)
    /\ user_profiles[user_id] # None
    /\ user_module_permissions' = [user_module_permissions EXCEPT ![user_id] =
            IF can_access THEN @ \cup {module_id} ELSE @ \ {module_id}]
    /\ UNCHANGED last
    /\ UNCHANGED <<session_vars, login_attempts, now, user_profiles,
                   modules, activity_logs>>
    /\ UNCHANGED frame

\* ModuleDB.toggle_module_status
toggle_module_status(module_id, is_active) ==
    /\ modules' = [modules EXCEPT ![module_id] = is_active]
    /\ UNCHANGED last
    /\ UNCHANGED <<session_vars, login_attempts, now, user_profiles,
                   user_module_permissions, activity_logs>>
    /\ UNCHANGED frame

(***************************************************************************)
(* Rendering one run of the script (src/app.py).  A rendering is the       *)
(* sequence of what the run put on the page; a screen's name in it means   *)
(* the body of that screen ran, with the store reads and writes it makes.  *)
(***************************************************************************)
\* the whitelist of keys load_module imports
ALLOWED_MODULES == {"order_extractor", "stock_price_updater", "product_management",
                    "woocommerce_zoho_export", "shipping_label_generator",
                    "mrp_label_generator", "module_template"}

\* the keys main() routes to the admin screens
AdminRoutes == {"admin_users", "admin_permissions", "admin_logs", "admin_modules"}

\* values current_module can be given: the keys above, the dashboard and a
\* key that names nothing
RouteKeys == ModuleKeys \cup AdminRoutes \cup {"dashboard", "no_such_module"}

\* require_admin that reports the denial and lets the script run on
require_admin_no_stop == TRUE

\* SessionManager.require_admin: TRUE when the script runs on past the guard,
\* FALSE when st.stop() ends the run there
require_admin == is_admin

\* SessionManager.require_module_access, likewise
require_module_access(module_key) == has_module_access(module_key)

\* the four admin screens (admin_panel.py): the guard, then the body
show_user_management ==
    IF require_admin THEN <<"show_user_management">> ELSE <<"Admin Access Required">>

show_user_permissions ==
    IF require_admin THEN <<"show_user_permissions">> ELSE <<"Admin Access Required">>

show_activity_logs ==
    IF require_admin THEN <<"show_activity_logs">> ELSE <<"Admin Access Required">>

show_module_management ==
    IF require_admin THEN <<"show_module_management">> ELSE <<"Admin Access Required">>

\* a feature module's show(): the guard, then the body
module_show(module_key) ==
    IF require_module_access(module_key)
    THEN <<"show", module_key>> ELSE <<"Access Denied">>

\* load_module without the whitelist test
load_module_no_whitelist(module_key) ==
    IF ~authenticated THEN <<"Authentication required">>
    ELSE IF ~has_module_access(module_key)
         THEN <<"Access denied: You don't have permission to access this module">>
    ELSE module_show(module_key)

\* load_module: the three checks, then the import and show()
load_module(module_key) ==
    IF ~authenticated THEN <<"Authentication required">>
    ELSE IF module_key \notin ALLOWED_MODULES THEN <<"Access denied: Invalid module">>
    ELSE IF ~has_module_access(module_key)
         THEN <<"Access denied: You don't have permission to access this module">>
    ELSE module_show(module_key)

\* main() without the logged-in test in front of the routing
route_no_login_check(cm) ==
    IF cm = None \/ cm = Some("dashboard") THEN <<"show_dashboard">>
    ELSE IF cm = Some("admin_users") THEN show_user_management
    ELSE IF cm = Some("admin_permissions") THEN show_user_permissions
    ELSE IF cm = Some("admin_logs") THEN show_activity_logs
    ELSE IF cm = Some("admin_modules") THEN show_module_management
    ELSE load_module(Get(cm))

\* main() for a value cm of current_module: what the run renders
route(cm) ==
    IF ~authenticated THEN <<"show_login_page">>
    ELSE IF cm = None \/ cm = Some("dashboard") THEN <<"show_dashboard">>
    ELSE IF cm = Some("admin_users") THEN show_user_management
    ELSE IF cm = Some("admin_permissions") THEN show_user_permissions
    ELSE IF cm = Some("admin_logs") THEN show_activity_logs
    ELSE IF cm = Some("admin_modules") THEN show_module_management
    ELSE load_module(Get(cm))

\* one run of main(); load_module writes a security_violation row for a key
\* outside the whitelist
main ==
    /\ last' = [op |-> "main", login_ret |-> None, shown |-> route(current_module)]
    /\ IF route(current_module) = <<"Access denied: Invalid module">>
       THEN \E logOK \in BOOLEAN :
              activity_logs' = log_write(Get(user).id, "security_violation", logOK)
       ELSE UNCHANGED activity_logs
    /\ UNCHANGED <<session_vars, login_attempts, now, store_vars>>
    /\ UNCHANGED frame

\* the clock advances
TickSteps == {299, 300, 301}

Tick(d) ==
    /\ now + d <= Epoch + Horizon
    /\ now' = now + d
    /\ UNCHANGED last
    /\ UNCHANGED <<session_vars, login_attempts, store_vars, activity_logs>>
    /\ UNCHANGED frame

(***************************************************************************)
(* The application: one session, the store and its administrators.         *)
(***************************************************************************)
Init ==
    /\ authenticated = FALSE
    /\ user = None
    /\ profile = None
    /\ accessible_modules = <<>>
    /\ current_module = None
    /\ login_attempts = [k \in LockoutKeys |-> None]
    /\ now = Epoch
    /\ user_profiles = [u \in AuthUsers |->
            IF u = "u1" THEN Some([role_name |-> "User", is_active |-> TRUE])
            ELSE None]
    /\ user_module_permissions = [u \in AuthUsers |-> {}]
    /\ modules = [m \in Modules |-> TRUE]
    /\ activity_logs = <<>>
    /\ last = [op |-> "init_session", login_ret |-> None, shown |-> <<>>]
    /\ frame = None

Next ==
    \/ \E email \in RawEmails, password \in Passwords : handle_login(email, password)
    \/ logout
    \/ \E k \in ModuleKeys : set_current_module(k)
    \/ refresh_permissions
    \/ \E u \in AuthUsers, r \in Roles, a \in BOOLEAN : update_user(u, r, a)
    \/ \E u \in AuthUsers, m \in Modules, c \in BOOLEAN : update_user_permission(u, m, c)
    \/ \E m \in Modules, a \in BOOLEAN : toggle_module_status(m, a)
    \/ main

Spec == Init /\ [][Next]_vars

(***************************************************************************)
(* The rate limiter driven through its own interface as well as through    *)
(* handle_login, with the clock advancing; the store is left alone.        *)
(***************************************************************************)
call_record_failed_attempt(email) ==
    /\ IF login_attempts[_get_lockout_key(email)] = None THEN TRUE
       ELSE Get(login_attempts[_get_lockout_key(email)]).attempts < MaxCount
    /\ login_attempts' = record_failed_attempt(login_attempts, email, now)
    /\ last' = [op |-> "record_failed_attempt", login_ret |-> None, shown |-> <<>>]
    /\ UNCHANGED <<session_vars, now, store_vars, activity_logs>>
    /\ UNCHANGED frame

call_record_successful_login(email) ==
    /\ login_attempts' = record_successful_login(login_attempts, email)
    /\ last' = [op |-> "record_successful_login", login_ret |-> None, shown |-> <<>>]
    /\ UNCHANGED <<session_vars, now, store_vars, activity_logs>>
    /\ UNCHANGED frame

call_is_locked_out(email) ==
    /\ login_attempts' = IF is_locked_out_raises(login_attempts, email, now)
                         THEN login_attempts
                         ELSE is_locked_out_state(login_attempts, email, now)
    /\ last' = [op |-> "is_locked_out", login_ret |-> None,
                shown |-> IF is_locked_out_raises(login_attempts, email, now)
                          THEN <<"TypeError">>
                          ELSE IF is_locked_out(login_attempts, email, now)
                          THEN <<"True">> ELSE <<"False">>]
    /\ UNCHANGED <<session_vars, now, store_vars, activity_logs>>
    /\ UNCHANGED frame

\* get_remaining_attempts called directly: its is_locked_out call may clear an
\* expired lockout, or raise
call_get_remaining_attempts(email) ==
    /\ login_attempts' = IF is_locked_out_raises(login_attempts, email, now)
                         THEN login_attempts
                         ELSE is_locked_out_state(login_attempts, email, now)
    /\ last' = [op |-> "get_remaining_attempts", login_ret |-> None,
                shown |-> IF is_locked_out_raises(login_attempts, email, now)
                          THEN <<"TypeError">>
                          ELSE <<ToString(get_remaining_attempts(login_attempts, email, now))>>]
    /\ UNCHANGED <<session_vars, now, store_vars, activity_logs>>
    /\ UNCHANGED frame

NextLimiter ==
    \/ \E email \in RawEmails : call_record_failed_attempt(email)
    \/ \E email \in RawEmails : call_record_successful_login(email)
    \/ \E email \in RawEmails : call_is_locked_out(email)
    \/ \E email \in RawEmails : call_get_remaining_attempts(email)
    \/ \E d \in TickSteps : Tick(d)

SpecLimiter == Init /\ [][NextLimiter]_vars

\* the login form, up to the login that succeeds, on top of a limiter that
\* is also called directly
NextLogin ==
    \/ \E email \in RawEmails, password \in Passwords : handle_login(email, password)
    \/ \E email \in RawEmails : call_record_failed_attempt(email)
    \/ \E d \in TickSteps : Tick(d)

SpecLogin == Init /\ [][NextLogin]_vars

(***************************************************************************)
(* The concurrent order fetch (src/modules/order_extractor.py:289-403,     *)
(* and the same code in src/db/db_orders.py:318-483).  The shop answers    *)
(* the requests for a page with a script of statuses: "200", "429", "500", *)
(* or "raise" for a request that ends in an exception (time-out, retries   *)
(* of the adapter exhausted).                                              *)
(***************************************************************************)
\* everything outside the call in progress
app_vars == <<authenticated, user, profile, accessible_modules, current_module,
              login_attempts, now, user_profiles, user_module_permissions, modules,
              activity_logs, last>>

\* scripts of a page whose request succeeds / fails
GoodScripts == { <<"200">>, <<"429", "200">> }
BadScripts == { <<"500">>, <<"429", "429">>, <<"429", "500">>, <<"raise">>,
                <<"429", "raise">> }

\* max_workers of the ThreadPoolExecutor
MAX_WORKERS == 3

\* the orders on page p of n: per_page of them, fewer on the last page; an
\* order is its id
PageOrders(p, n) ==
    [i \in 1..(IF p = n /\ n > 1 THEN PerPage - 1 ELSE PerPage) |-> 10 * p + i]

\* _fetch_single_page ending with the statuses read in place (no Retry-After
\* second request)
_fetch_single_page_no_retry(page_num, n, script) ==
    IF script[1] = "200"
    THEN [orders |-> PageOrders(page_num, n), total_pages |-> n]
    ELSE [orders |-> <<>>, total_pages |-> 1]

\* _fetch_single_page: (orders, total_pages) for the statuses the requests of
\* the page meet; a 429 is followed by one more request
_fetch_single_page(page_num, n, script) ==
    LET status == IF script[1] = "429" THEN script[2] ELSE script[1] IN
    IF status = "200"
    THEN [orders |-> PageOrders(page_num, n), total_pages |-> n]
    ELSE [orders |-> <<>>, total_pages |-> 1]

\* fetch_orders is called: the shop holds n pages, page bad (if any) answers
\* with script, every other page with 200
fetch_orders(n, bad, script) ==
    /\ frame = None
    /\ frame' = Some([pc |-> "first_page",
                      n |-> n,
                      script |-> [p \in 1..n |-> IF p = bad THEN script ELSE <<"200">>],
                      all_orders |-> <<>>,
                      total_pages |-> 0,
                      queue |-> <<>>,
                      running |-> {},
                      completed |-> {},
                      ret |-> None])
    /\ UNCHANGED app_vars

\* page 1 is fetched synchronously; the remaining pages are submitted
fetch_first_page ==
    /\ frame # None /\ Get(frame).pc = "first_page"
    /\ LET f == Get(frame)
           r == _fetch_single_page(1, f.n, f.script[1])
       IN frame' = Some([f EXCEPT
              !.all_orders = @ \o r.orders,
              !.total_pages = r.total_pages,
              !.queue = [i \in 1..(r.total_pages - 1) |-> i + 1],
              !.pc = "as_completed"])
    /\ UNCHANGED app_vars

\* a free worker takes the next submitted page
worker_start ==
    /\ frame # None /\ Get(frame).pc = "as_completed"
    /\ Get(frame).queue # <<>>
    /\ Cardinality(Get(frame).running) < MAX_WORKERS
    /\ frame' = Some([Get(frame) EXCEPT !.running = @ \cup {Head(Get(frame).queue)},
                                        !.queue = Tail(@)])
    /\ UNCHANGED app_vars

\* a worker's _fetch_single_page returns: its future is completed
worker_finish(page) ==
    /\ frame # None /\ Get(frame).pc = "as_completed"
    /\ page \in Get(frame).running
    /\ frame' = Some([Get(frame) EXCEPT !.running = @ \ {page},
                                        !.completed = @ \cup {page}])
    /\ UNCHANGED app_vars

\* the collecting loop takes a completed future and extends all_orders
collect(page) ==
    /\ frame # None /\ Get(frame).pc = "as_completed"
    /\ page \in Get(frame).completed
    /\ LET f == Get(frame)
           r == _fetch_single_page(page, f.n, f.script[page])
       IN frame' = Some([f EXCEPT !.completed = @ \ {page},
                                  !.all_orders = @ \o r.orders])
    /\ UNCHANGED app_vars

\* every future has been collected: fetch_orders returns all_orders
fetch_return ==
    /\ frame # None /\ Get(frame).pc = "as_completed"
    /\ Get(frame).queue = <<>> /\ Get(frame).running = {} /\ Get(frame).completed = {}
    /\ frame' = Some([Get(frame) EXCEPT !.pc = "returned",
                                        !.ret = Some(Get(frame).all_orders)])
    /\ UNCHANGED app_vars

NextFetch ==
    \/ \E n \in 1..MaxPages : \E bad \in 0..n, script \in GoodScripts \cup BadScripts :
          fetch_orders(n, bad, script)
    \/ fetch_first_page
    \/ worker_start
    \/ \E page \in 2..MaxPages : worker_finish(page)
    \/ \E page \in 2..MaxPages : collect(page)
    \/ fetch_return

SpecFetch == Init /\ [][NextFetch]_vars

(***************************************************************************)
(* The login page's password-reset request (src/auth/session.py:131-165,   *)
(* src/auth/login.py:193-209).                                             *)
(***************************************************************************)
\* addresses typed into the reset form: those of the accounts, in several
\* spellings, and one no account has
ResetEmails == RawEmails \cup {<<"c">>}

\* an account exists for the address
account_exists(email) == \E u \in AuthUsers : auth_email(u) = _get_lockout_key(email)

\* the return value with the failure of the provider's call reported
send_password_reset_email_return_reveals(email, raises) ==
    IF raises
    THEN [success |-> FALSE, message |-> <<"Failed to send reset email">>]
    ELSE [success |-> TRUE,
          message |-> <<"Password reset email sent! Please check your inbox.">>]

\* SessionManager.send_password_reset_email: what it returns when
\* supabase.auth.reset_password_email raises or does not
send_password_reset_email_return(email, raises) ==
    IF raises
    THEN [success |-> TRUE,
          message |-> <<"If an account exists with this email, you will receive a password reset link.">>]
    ELSE [success |-> TRUE,
          message |-> <<"Password reset email sent! Please check your inbox.">>]

\* handle_forgot_password: the request is made from the login page; the
\* provider may raise whether or not the account exists
send_password_reset_email(email) ==
    /\ ~authenticated
    /\ \E raises \in BOOLEAN :
       \E logOK \in IF raises THEN {TRUE} ELSE BOOLEAN :
          /\ activity_logs' = IF raises THEN activity_logs
                              ELSE log_write("None", "password_reset_request", logOK)
          /\ last' = [op |-> "send_password_reset_email",
                      login_ret |-> Some(send_password_reset_email_return(email, raises)),
                      shown |-> send_password_reset_email_return(email, raises).message]
    /\ UNCHANGED <<session_vars, login_attempts, now, store_vars, frame>>

\* the login page and the logout button: login, reset request, logout
NextLoginPage ==
    \/ \E email \in RawEmails, password \in Passwords : handle_login(email, password)
    \/ \E email \in ResetEmails : send_password_reset_email(email)
    \/ logout
    \/ \E u \in AuthUsers, r \in Roles, a \in BOOLEAN : update_user(u, r, a)

SpecLoginPage == Init /\ [][NextLoginPage]_vars

(***************************************************************************)
(* The sequential paginated fetches                                        *)
(* (src/modules/woocommerce_zoho_export.py:93-164 fetch_orders,            *)
(* src/modules/product_management.py:460-521 fetch_wc_products).  One step *)
(* is one requests.get with the handling of its outcome.  The shop holds   *)
(* at most MaxSeqPages pages of results; lists are kept by their length.   *)
(***************************************************************************)

max_retries == 3
PRODUCT_LIMIT == 100

\* what one requests.get ends in: a status code, a 200 whose JSON body is no
\* list, or the exception raised
Responses == {"200", "429", "500", "not_list", "Timeout", "ConnectionError",
              "RequestException", "Exception"}

\* the lengths of the list a 200 answer carries
PageItems == {0, 40, 100}

\* the locals at the top of the outer loop, for page `page`
seq_frame(fn, page, len, requests) ==
    [fn |-> fn, pc |-> "request", page |-> page, retries |-> 0,
     all |-> len, page_requests |-> requests, ret |-> None]

seq_returned(f, len, error) ==
    [f EXCEPT !.pc = "returned", !.ret = Some([len |-> len, error |-> error])]

\* the retry counter after a 429: at max_retries the inner loop ends without
\* a break and the outer loop starts it again at 0 for the same page
retries_after_429(retries) ==
    IF retries + 1 < max_retries THEN retries + 1 ELSE 0

\* fetch_orders of the Zoho export is called
export_fetch_orders ==
    /\ frame = None
    /\ frame' = Some(seq_frame("fetch_orders", 1, 0, 0))
    /\ UNCHANGED app_vars

\* one pass of the inner loop of the Zoho export's fetch_orders
export_fetch_orders_request(resp, items) ==
    /\ frame # None
    /\ Get(frame).fn = "fetch_orders" /\ Get(frame).pc = "request"
    /\ Get(frame).page_requests < MaxRequests
    /\ Get(frame).page > MaxSeqPages => items = 0
    /\ LET f == [Get(frame) EXCEPT !.page_requests = @ + 1] IN
       frame' = Some(
         CASE resp = "429" ->
                [f EXCEPT !.retries = retries_after_429(@)]
           [] resp \in {"500", "not_list", "Timeout", "ConnectionError", "Exception"} ->
                seq_returned(f, 0, TRUE)
           [] resp = "RequestException" ->
                IF f.retries < max_retries - 1
                THEN [f EXCEPT !.retries = @ + 1]
                ELSE seq_returned(f, 0, TRUE)
           [] resp = "200" ->
                IF items = 0
                THEN seq_returned(f, f.all, FALSE)
                ELSE seq_frame(f.fn, f.page + 1, f.all + items, 0))
    /\ UNCHANGED app_vars

\* fetch_wc_products is called
fetch_wc_products ==
    /\ frame = None
    /\ frame' = Some(seq_frame("fetch_wc_products", 1, 0, 0))
    /\ UNCHANGED app_vars

\* one pass of the inner loop of fetch_wc_products
fetch_wc_products_request(resp, items) ==
    /\ frame # None
    /\ Get(frame).fn = "fetch_wc_products" /\ Get(frame).pc = "request"
    /\ Get(frame).page_requests < MaxRequests
    /\ Get(frame).page > MaxSeqPages => items = 0
    /\ resp # "not_list"
    /\ LET f == [Get(frame) EXCEPT !.page_requests = @ + 1] IN
       frame' = Some(
         CASE resp = "429" ->
                [f EXCEPT !.retries = retries_after_429(@)]
           [] resp \in {"500", "Exception"} ->
                seq_returned(f, 0, TRUE)
           [] resp \in {"RequestException", "Timeout", "ConnectionError"} ->
                IF f.retries < max_retries - 1
                THEN [f EXCEPT !.retries = @ + 1]
                ELSE seq_returned(f, 0, TRUE)
           [] resp = "200" ->
                IF items = 0
                THEN seq_returned(f, f.all, FALSE)
                ELSE IF f.all + items < PRODUCT_LIMIT
                THEN seq_frame(f.fn, f.page + 1, f.all + items, 0)
                ELSE seq_returned(f, PRODUCT_LIMIT, FALSE))
    /\ UNCHANGED app_vars

\* the caller takes the returned list and the call is over
seq_fetch_done ==
    /\ frame # None /\ Get(frame).pc = "returned"
    /\ Get(frame).fn \in {"fetch_orders", "fetch_wc_products"}
    /\ frame' = None
    /\ UNCHANGED app_vars

NextSeqFetch ==
    \/ export_fetch_orders
    \/ \E resp \in Responses, items \in PageItems : export_fetch_orders_request(resp, items)
    \/ fetch_wc_products
    \/ \E resp \in Responses, items \in PageItems : fetch_wc_products_request(resp, items)
    \/ seq_fetch_done

SpecSeqFetch == Init /\ [][NextSeqFetch]_vars

(***************************************************************************)
(* Shipping-label generation (src/modules/shipping_label_generator.py).    *)
(* An uploaded table is a sequence of rows; a cleaned table keeps, with    *)
(* every row, the index label the row had in the upload, as pandas does.   *)
(* Cell texts are sequences of characters.                                 *)
(***************************************************************************)

BATCH_SIZE == 500

\* rows of an upload: an order, the same order spelt with a trailing blank,
\* two other orders, and a row whose order number is blank
LabelRows ==
    { [order |-> <<"1">>, name |-> <<"a">>],
      [order |-> <<"1", " ">>, name |-> <<"a">>],
      [order |-> <<"2">>, name |-> <<"b">>],
      [order |-> <<"3">>, name |-> <<"c">>],
      [order |-> <<" ">>, name |-> <<"b">>] }

Uploads == UNION { [1..n -> LabelRows] : n \in 1..MaxRows }

\* the table as read, with pandas' default index and both columns stripped
read_table(table) ==
    [i \in 1..Len(table) |->
        [idx |-> i - 1, order |-> str_strip(table[i].order),
         name |-> str_strip(table[i].name)]]

\* the rows of s at the positions in keep, in order, with their index labels
RECURSIVE keep_rows(_, _, _)
keep_rows(s, i, keep) ==
    IF i > Len(s) THEN <<>>
    ELSE IF i \in keep THEN <<s[i]>> \o keep_rows(s, i + 1, keep)
    ELSE keep_rows(s, i + 1, keep)

\* df.drop_duplicates(subset=["order #", "name"], keep="first")
drop_duplicates(df) ==
    keep_rows(df, 1, {i \in 1..Len(df) :
                        ~\E j \in 1..(i - 1) :
                            df[j].order = df[i].order /\ df[j].name = df[i].name})

\* df[(df["order #"] != "") & (df["name"] != "")]
drop_empty(df) ==
    keep_rows(df, 1, {i \in 1..Len(df) : df[i].order # <<>> /\ df[i].name # <<>>})

\* the cleaning of show: strip, drop duplicates, drop empty rows
clean_table(table) == drop_empty(drop_duplicates(read_table(table)))

\* show with the Generate button pressed on an uploaded table: the cleaned
\* table goes through generate_labels and process_single_batch to
\* create_pdf_with_progress; an upload with no valid row ends in a warning
generate_labels(table) ==
    /\ frame = None
    /\ LET df == clean_table(table) IN
       /\ Len(df) <= BATCH_SIZE
       /\ frame' = Some([fn |-> "create_pdf_with_progress",
                         pc |-> IF df = <<>> THEN "no_data" ELSE "iterrows",
                         df |-> df, pos |-> 1, pages |-> 0,
                         progress |-> <<0, 1>>, pdf_data |-> None])
    /\ UNCHANGED app_vars

\* one pass of the loop of create_pdf_with_progress: a page is drawn and the
\* progress bar is set to (idx + 1) / total, which st.progress refuses with an
\* exception when it is above 1; the function then returns None
create_pdf_with_progress ==
    /\ frame # None
    /\ Get(frame).fn = "create_pdf_with_progress" /\ Get(frame).pc = "iterrows"
    /\ Get(frame).pos <= Len(Get(frame).df)
    /\ LET f == Get(frame)
           idx == f.df[f.pos].idx
           total == Len(f.df)
       IN frame' = Some([f EXCEPT !.pages = @ + 1,
                                  !.progress = <<idx + 1, total>>,
                                  !.pos = @ + 1,
                                  !.pc = IF idx + 1 > total THEN "returned" ELSE @])
    /\ UNCHANGED app_vars

\* the loop is over: c.save() and the bytes of the PDF are returned
create_pdf_save ==
    /\ frame # None
    /\ Get(frame).fn = "create_pdf_with_progress" /\ Get(frame).pc = "iterrows"
    /\ Get(frame).pos > Len(Get(frame).df)
    /\ frame' = Some([Get(frame) EXCEPT !.pc = "returned",
                                        !.pdf_data = Some(Get(frame).pages)])
    /\ UNCHANGED app_vars

NextLabels ==
    \/ \E table \in Uploads : generate_labels(table)
    \/ create_pdf_with_progress
    \/ create_pdf_save

SpecLabels == Init /\ [][NextLabels]_vars

(***************************************************************************)
(* Properties.                                                             *)
(***************************************************************************)
AccessibleKeys == {accessible_modules[i].module_key : i \in 1..Len(accessible_modules)}

\* a lockout-until time exists for the e-mail's key and lies in the future
LockedNow(email) ==
    LET key == _get_lockout_key(email) IN
    /\ login_attempts[key] # None
    /\ Get(login_attempts[key]).locked_until # None
    /\ now < Get(Get(login_attempts[key]).locked_until)

\* the credentials open an account whose profile row exists and is active
GoodLogin(email) ==
    /\ sign_in_user(email, "pw") # None
    /\ get_user_profile(Get(sign_in_user(email, "pw"))) # None
    /\ Get(get_user_profile(Get(sign_in_user(email, "pw")))).is_active

\* C1: in a session whose cached profile role is Admin, has_module_access(k)
\* is true for every module key k, whatever the accessible-module set and
\* the grant rows are.
C1_AdminHasEveryModule ==
    (profile # None /\ Get(profile).role_name = "Admin")
        => \A k \in ModuleKeys : has_module_access(k)

\* an Admin session with an empty accessible-module set and no grant row
C1_Witness ==
    /\ authenticated
    /\ Get(profile).role_name = "Admin"
    /\ accessible_modules = <<>>
    /\ user_module_permissions[Get(user).id] = {}
    /\ has_module_access("admin_modules")

\* C2 (state part): in a session whose role is not Admin, or with no profile,
\* has_module_access(k) is true exactly for the module keys of the cached
\* accessible-module set, and with no profile it is false for every key.
C2_CachedSetDecides ==
    /\ ~is_admin => \A k \in ModuleKeys : has_module_access(k) <=> k \in AccessibleKeys
    /\ profile = None => \A k \in ModuleKeys : ~has_module_access(k)

\* C2 (login part): a login that opens a non-admin session leaves
\* has_module_access(k) true exactly for the keys k with a grant row for the
\* user at that moment (for none when the read of the rows fails).
C2_LoginResolvesGrants ==
    (~authenticated /\ authenticated' /\ ~is_admin') =>
    \A email \in RawEmails : sign_in_user(email, "pw") # None =>
        \A logOK \in BOOLEAN, readOK \in BOOLEAN :
            handle_login_body(email, "pw", "none", logOK, readOK)
            => \A k \in ModuleKeys :
                  has_module_access(k)' <=>
                    (readOK /\ k \in user_module_permissions[Get(sign_in_user(email, "pw"))])

C3_Step ==
    (~authenticated /\ last'.op = "handle_login" /\ last'.login_ret # None) =>
    \A email \in RawEmails :
        (/\ sign_in_user(email, "pw") # None
         /\ ~GoodLogin(email)
         /\ ~is_locked_out_raises(login_attempts, email, now)
         /\ ~LockedNow(email))
        => (handle_login_body(email, "pw", "none", TRUE, TRUE)
              => /\ ~Get(last'.login_ret).success
                 /\ UNCHANGED session_vars
                 /\ UNCHANGED activity_logs
                 /\ ~authenticated')

C3_InactiveLoginFails == [][C3_Step]_vars

\* a login of an inactive account was refused and the session is Anonymous
C3_Witness ==
    /\ last.op = "handle_login"
    /\ last.login_ret # None
    /\ Get(last.login_ret).message =
          <<"Your account is inactive. Please contact administrator.">>
    /\ ~authenticated /\ user = None /\ profile = None

\* C4: a handle_login attempt made while the e-mail is locked out ends with
\* the lockout message and without SessionManager.login being invoked.
C4_Step ==
    \A email \in RawEmails : (~authenticated /\ LockedNow(email)) =>
        \A password \in Passwords :
              handle_login_body(email, password, "none", TRUE, TRUE)
              => /\ last'.shown = <<"lockout">>
                 /\ last'.login_ret = None
                 /\ UNCHANGED <<session_vars, activity_logs, login_attempts>>

C4_LockoutCheckedFirst == [][C4_Step]_vars

\* an attempt was turned away by the lockout check, login not invoked
C4_Witness ==
    /\ last.op = "handle_login"
    /\ last.shown = <<"lockout">>
    /\ last.login_ret = None
    /\ \E email \in RawEmails : LockedNow(email)

\* C5 (state part): a key with 1 to 4 recorded failures has no lockout-until
\* time, and while a lockout-until time lies in the future is_locked_out is
\* true.
C5_State ==
    \A email \in RawEmails :
        LET key == _get_lockout_key(email) IN
        login_attempts[key] # None =>
            /\ Get(login_attempts[key]).attempts < MAX_ATTEMPTS
                  => Get(login_attempts[key]).locked_until = None
            /\ LockedNow(email) => is_locked_out(login_attempts, email, now)

\* C5 (step part): the failure that follows four failures inside the attempt
\* window is the 5th and sets the lockout-until time to now + 300.
C5_Step ==
    \A email \in RawEmails :
        LET key == _get_lockout_key(email) IN
        (/\ login_attempts[key] # None
         /\ Get(login_attempts[key]).attempts = MAX_ATTEMPTS - 1
         /\ now - Get(Get(login_attempts[key]).first_attempt) < ATTEMPT_WINDOW_SECONDS
         /\ call_record_failed_attempt(email))
        => /\ Get(login_attempts'[key]).attempts = MAX_ATTEMPTS
           /\ Get(login_attempts'[key]).locked_until = Some(now + LOCKOUT_DURATION_SECONDS)
           /\ is_locked_out(login_attempts', email, now)

\* C5: failures inside one attempt window do not lock the e-mail out before
\* the 5th, and the 5th sets lockout-until to its own time + 300 seconds.
C5_FifthFailureLocks == []C5_State /\ [][C5_Step]_vars

\* a 5th failure recorded later than the first, the lockout running from it
C5_Witness ==
    \E email \in RawEmails :
        LET key == _get_lockout_key(email) IN
        /\ login_attempts[key] # None
        /\ Get(login_attempts[key]).attempts = MAX_ATTEMPTS
        /\ Get(login_attempts[key]).locked_until # None
        /\ Get(Get(login_attempts[key]).locked_until)
              > Get(Get(login_attempts[key]).first_attempt) + LOCKOUT_DURATION_SECONDS
        /\ last.op = "record_failed_attempt"
        /\ LockedNow(email)

\* C6: a handle_login attempt with the correct password of an active account,
\* made while no lockout is in force for the e-mail (none was set, or the
\* lockout duration has elapsed), is passed to the Credential Store,
\* succeeds and leaves no counter state for the e-mail.
C6_Step ==
    (~authenticated /\ last'.op = "handle_login") =>
    \A email \in RawEmails :
        (GoodLogin(email) /\ ~LockedNow(email))
        => (handle_login_body(email, "pw", "none", TRUE, TRUE)
              => /\ last'.login_ret # None
                 /\ authenticated'
                 /\ login_attempts'[_get_lockout_key(email)] = None)

C6_CorrectPasswordSucceeds == [][C6_Step]_vars

\* C7 (refresh): refresh_permissions in a non-admin session leaves
\* has_module_access(k) false for every k without a grant row.
C7_Refresh ==
    (last'.op = "refresh_permissions" /\ authenticated /\ ~is_admin) =>
    \A k \in ModuleKeys :
        (refresh_permissions /\ k \notin user_module_permissions[Get(user).id])
        => ~has_module_access(k)'

\* C7 (later calls): within one session, no step but refresh_permissions
\* turns has_module_access(k) from false to true.
C7_Later ==
    (authenticated /\ authenticated') =>
    \A k \in ModuleKeys :
        (~has_module_access(k) /\ has_module_access(k)') => refresh_permissions

\* C7: after the grant for k is revoked and refresh_permissions is called,
\* has_module_access(k) is false in that session from then on, with no new
\* login.
C7_RevokedAfterRefresh == [][C7_Refresh /\ C7_Later]_vars

\* a non-admin session just refreshed, without access to an ungranted module
C7_Witness ==
    /\ last.op = "refresh_permissions"
    /\ authenticated /\ ~is_admin
    /\ user_module_permissions[Get(user).id] = {"stock_price_updater"}
    /\ ~has_module_access("order_extractor")
    /\ has_module_access("stock_price_updater")
    /\ \E i \in 1..Len(activity_logs) : activity_logs[i].action_type = "login"

\* C8 (store side): the store-side check answers true for a user exactly when
\* the user's role is Admin or a grant row exists for the key.
C8_State ==
    \A u \in AuthUsers : user_profiles[u] # None =>
        \A k \in ModuleKeys :
            db_has_module_access(u, k) <=>
                (Get(user_profiles[u]).role_name = "Admin"
                 \/ k \in user_module_permissions[u])

\* C8 (promotion): changing a user's role to Admin creates no grant row and
\* makes the store-side check true for every key.
C8_Promote ==
    (user_profiles' # user_profiles) =>
    \A u \in AuthUsers, a \in BOOLEAN :
        update_user(u, "Admin", a)
        => /\ \A k \in ModuleKeys : db_has_module_access(u, k)'
           /\ UNCHANGED user_module_permissions

\* C8 (session side): a session opened by a login of an Admin has access to
\* every key.
C8_Login ==
    (~authenticated /\ authenticated' /\ Get(profile').role_name = "Admin")
        => \A k \in ModuleKeys : has_module_access(k)'

C9_Step ==
    (~authenticated /\ authenticated' /\ is_admin') =>
    \A email \in RawEmails : GoodLogin(email) =>
        \A logOK \in BOOLEAN :
            handle_login_body(email, "pw", "none", logOK, TRUE)
            => accessible_modules' = active_module_rows

C9_AdminGetsActiveModules == [][C9_Step]_vars

\* C10: after logout the session is Anonymous with nothing cached:
\* authenticated false, user and profile empty, the accessible-module set
\* empty, the current module unset, whether or not the audit write succeeded.
C10_LogoutClears ==
    last.op = "logout" =>
        /\ authenticated = FALSE
        /\ user = None
        /\ profile = None
        /\ accessible_modules = <<>>
        /\ current_module = None

\* a logout whose audit write failed: the login entry is the only row
C10_Witness ==
    /\ last.op = "logout"
    /\ Len(activity_logs) = 1
    /\ activity_logs[1].action_type = "login"
    /\ ~authenticated /\ current_module = None

\* C11 (as stated): every logout, from any session state, appends exactly one
\* logout entry to the activity log.
C11_Step ==
    (last'.op = "logout" /\ logout) =>
        /\ Len(activity_logs') = Len(activity_logs) + 1
        /\ activity_logs'[Len(activity_logs')].action_type = "logout"

C11_LogoutAppendsOne == [][C11_Step]_vars

\* C11 (amended): a logout of a session that holds a user makes one audit
\* write, which appends at most one logout entry, carrying the id of the user
\* the session held before it was cleared; a logout of a session without a
\* user writes nothing.  Either way the session ends cleared.
C11_AmendedStep ==
    (last'.op = "logout" /\ logout) =>
        /\ IF user = None
           THEN activity_logs' = activity_logs
           ELSE activity_logs' \in
                  {activity_logs,
                   Append(activity_logs,
                          [user_id |-> Get(user).id, action_type |-> "logout"])}
        /\ user' = None /\ ~authenticated'

C11_LogoutAppendsAtMostOne == [][C11_AmendedStep]_vars

\* a logout whose audit write succeeded: the login row, then the logout row
\* of the same user, and the session cleared
C11_Witness ==
    /\ last.op = "logout"
    /\ Len(activity_logs) = 2
    /\ activity_logs[1] = [user_id |-> "u1", action_type |-> "login"]
    /\ activity_logs[2] = [user_id |-> "u1", action_type |-> "logout"]
    /\ user = None /\ ~authenticated

\* the texts the Credential Store raises
ProviderTexts == (ProviderFaults \ {"none"}) \cup {"Invalid login credentials"}

\* the user-facing failure messages: invalid credentials, unverified email,
\* unknown user, generic failure, contact administrator (two wordings)
FixedMessages ==
    { <<"Invalid email or password">>,
      <<"Please verify your email address before logging in">>,
      <<"No account found with this email">>,
      <<"Login failed">>,
      <<"User profile not found. Please contact administrator.">>,
      <<"Your account is inactive. Please contact administrator.">> }

\* C12: every failure message login returns is one of the fixed user-facing
\* messages, and no piece of it is the text of the provider's error.
C12_NoRawProviderText ==
    (last.op = "handle_login" /\ last.login_ret # None
        /\ ~Get(last.login_ret).success) =>
    LET message == Get(last.login_ret).message IN
    /\ message \in FixedMessages
    /\ \A i \in 1..Len(message) : message[i] \notin ProviderTexts

\* C13 (login part): a login with the correct password of an active account
\* whose audit write fails returns success and leaves the session
\* Authenticated, with no row appended.
C13_LoginStep ==
    (~authenticated /\ last'.op = "handle_login" /\ last'.login_ret # None) =>
    \A email \in RawEmails : GoodLogin(email) =>
        \A readOK \in BOOLEAN :
            handle_login_body(email, "pw", "none", FALSE, readOK)
            => /\ Get(last'.login_ret).success
               /\ authenticated' /\ user' # None /\ profile' # None
               /\ activity_logs' = activity_logs

\* C13 (logout part): a logout of a session holding a user whose audit write
\* fails (no row appended) clears the session.
C13_LogoutStep ==
    (last'.op = "logout" /\ user # None /\ activity_logs' = activity_logs /\ logout)
    => /\ ~authenticated' /\ user' = None /\ profile' = None
       /\ accessible_modules' = <<>> /\ current_module' = None

\* C13: an audit write that fails never blocks or fails the action that
\* triggered it: the login still succeeds, the logout still clears.
C13_AuditFailureDoesNotBlock == [][C13_LoginStep /\ C13_LogoutStep]_vars

\* a login that succeeded although its audit write failed: Authenticated,
\* and the activity log still empty
C13_Witness ==
    /\ last.op = "handle_login"
    /\ last.login_ret # None /\ Get(last.login_ret).success
    /\ authenticated /\ user # None
    /\ activity_logs = <<>>

\* the renderings in which the body of an admin screen ran
AdminBodies == { <<"show_user_management">>, <<"show_user_permissions">>,
                 <<"show_activity_logs">>, <<"show_module_management">> }

\* C14: the guards are terminal.  In every session state and for every value
\* of current_module, a run of main() renders the body of an admin screen
\* only when is_admin() holds and the body of a feature module only when
\* has_module_access of its key holds; a screen or module whose guard fails
\* renders the denial and nothing after it.
C14_GuardsAreTerminal ==
    /\ \A k \in RouteKeys :
          /\ route(Some(k)) \in AdminBodies => is_admin
          /\ route(Some(k))[1] = "show" => has_module_access(route(Some(k))[2])
          /\ module_show(k)[1] = "show" => has_module_access(k)
    /\ ~is_admin =>
          /\ show_user_management = <<"Admin Access Required">>
          /\ show_user_permissions = <<"Admin Access Required">>
          /\ show_activity_logs = <<"Admin Access Required">>
          /\ show_module_management = <<"Admin Access Required">>
    /\ last.op = "main" =>
          /\ last.shown \in AdminBodies => is_admin
          /\ last.shown[1] = "show" => has_module_access(last.shown[2])

\* a non-admin session routed to an admin screen: the run stopped at the guard
C14_Witness ==
    /\ last.op = "main"
    /\ authenticated /\ ~is_admin
    /\ current_module = Some("admin_modules")
    /\ last.shown = <<"Admin Access Required">>

\* C15: while the session is Anonymous, a run of main() renders the login
\* page (which holds the password-reset forms) and nothing else, for every
\* value current_module could hold: never the dashboard, an admin screen or
\* a feature module.
C15_AnonymousSeesLoginOnly ==
    ~authenticated =>
        /\ \A cm \in {None} \cup {Some(k) : k \in RouteKeys} :
              route(cm) = <<"show_login_page">>
        /\ last.op = "main" => last.shown = <<"show_login_page">>

\* the run that follows a logout: Anonymous again, the login page rendered
C15_Witness ==
    /\ last.op = "main"
    /\ ~authenticated
    /\ last.shown = <<"show_login_page">>
    /\ \E i \in 1..Len(activity_logs) : activity_logs[i].action_type = "logout"

\* the counter record of an e-mail's key
Counter(email) == Get(login_attempts[_get_lockout_key(email)])

\* record_failed_attempt on an open window, with the window counted as open
\* while Open(elapsed) holds: open, the counter is incremented and the window
\* kept; expired, the counter is 1, the window starts now, no lockout is set
WindowRule(email, open) ==
    LET key == _get_lockout_key(email)
        d == Get(login_attempts[key])
        d1 == Get(login_attempts'[key])
    IN
    IF open
    THEN /\ d1.attempts = d.attempts + 1
         /\ d1.first_attempt = d.first_attempt
    ELSE /\ d1.attempts = 1
         /\ d1.first_attempt = Some(now)
         /\ d1.locked_until = None

\* C16 (as stated): the window is open while elapsed < 300 and has expired
\* from elapsed = 300 on.
C16_Step ==
    (last'.op = "record_failed_attempt") =>
    \A email \in RawEmails :
        (/\ login_attempts[_get_lockout_key(email)] # None
         /\ Counter(email).first_attempt # None
         /\ call_record_failed_attempt(email))
        => WindowRule(email, now - Get(Counter(email).first_attempt)
                                < ATTEMPT_WINDOW_SECONDS)

C16_WindowExpiresAt300 == [][C16_Step]_vars

\* C16 (amended): record_failed_attempt on an open window increments the
\* counter while elapsed <= 300 seconds, and resets it to 1 with a new window
\* and no lockout only once elapsed > 300 seconds.
C16_AmendedStep ==
    (last'.op = "record_failed_attempt") =>
    \A email \in RawEmails :
        (/\ login_attempts[_get_lockout_key(email)] # None
         /\ Counter(email).first_attempt # None
         /\ call_record_failed_attempt(email))
        => WindowRule(email, now - Get(Counter(email).first_attempt)
                                <= ATTEMPT_WINDOW_SECONDS)

C16_WindowExpiresAfter300 == [][C16_AmendedStep]_vars

\* a second failure recorded exactly 300 seconds after the first: counted in
\* the same window
C16_Witness ==
    \E email \in RawEmails :
        /\ last.op = "record_failed_attempt"
        /\ login_attempts[_get_lockout_key(email)] # None
        /\ Counter(email).attempts = 2
        /\ Counter(email).first_attempt = Some(now - ATTEMPT_WINDOW_SECONDS)

\* every failed attempt on the e-mail so far came more than 300 seconds after
\* the one before it, and so does one made now: there is no counter yet, or
\* the counter is 1, opened by the previous attempt, more than 300 seconds ago
Spaced(email) ==
    LET key == _get_lockout_key(email) IN
    \/ login_attempts[key] = None
    \/ /\ Counter(email).attempts = 1
       /\ Counter(email).locked_until = None
       /\ Counter(email).first_attempt # None
       /\ now - Get(Counter(email).first_attempt) > ATTEMPT_WINDOW_SECONDS

\* the counter after the step is 1 with no lockout
CounterAtOne(email) ==
    LET key == _get_lockout_key(email) IN
    /\ login_attempts'[key] # None
    /\ Get(login_attempts'[key]).attempts = 1
    /\ Get(login_attempts'[key]).locked_until = None
    /\ ~is_locked_out(login_attempts', email, now)

\* C17 (step): a failed attempt that comes more than 300 seconds after the
\* previous one, recorded directly or through handle_login, leaves the
\* counter at 1 with no lockout, and recorded directly it opens a new window,
\* so the next spaced attempt finds the same situation.
C17_Step ==
    (last'.op \in {"record_failed_attempt", "handle_login"}) =>
    \A email \in RawEmails : Spaced(email) =>
        /\ call_record_failed_attempt(email)
              => /\ CounterAtOne(email)
                 /\ Get(login_attempts'[_get_lockout_key(email)]).first_attempt = Some(now)
        /\ \A password \in Passwords, fault \in ProviderFaults :
              (/\ ~authenticated
               /\ handle_login_body(email, password, fault, TRUE, TRUE)
               /\ ~authenticated')
              => CounterAtOne(email)

\* C17: failed attempts on one e-mail each more than 300 seconds after the
\* previous one leave the counter at 1 every time and never lock the e-mail
\* out, however many are made.
C17_SpacedAttemptsNeverLock == [][C17_Step]_vars

\* the third of three failures 301 seconds apart: the counter is 1, its
\* window opened just now, no lockout
C17_Witness ==
    \E email \in RawEmails :
        /\ last.op = "record_failed_attempt"
        /\ now = Epoch + 2 * (ATTEMPT_WINDOW_SECONDS + 1)
        /\ login_attempts[_get_lockout_key(email)] # None
        /\ Counter(email).attempts = 1
        /\ Counter(email).first_attempt = Some(now)
        /\ Counter(email).locked_until = None

\* a lockout-until time exists for the e-mail's key and has passed
LockoutPassed(email) ==
    LET key == _get_lockout_key(email) IN
    /\ login_attempts[key] # None
    /\ Counter(email).locked_until # None
    /\ ~(now < Get(Counter(email).locked_until))

\* C18: is_locked_out(email) returns true exactly when a lockout-until time
\* exists for the e-mail and lies in the future; when one exists and has
\* passed, the call returns false and removes the e-mail's counter state,
\* leaving the other keys alone; in every other case the session state is
\* unchanged, and with no counter state the call returns false.
C18_Step ==
    (last'.op = "is_locked_out") =>
    \A email \in RawEmails : call_is_locked_out(email) =>
        /\ last'.shown = <<"True">> <=> LockedNow(email)
        /\ LockoutPassed(email) =>
              /\ last'.shown = <<"False">>
              /\ login_attempts' =
                    [login_attempts EXCEPT ![_get_lockout_key(email)] = None]
        /\ ~LockoutPassed(email) => login_attempts' = login_attempts
        /\ login_attempts[_get_lockout_key(email)] = None => last'.shown = <<"False">>

C18_LockedOutIffFutureLockout == [][C18_Step]_vars

\* is_locked_out answered true during a lockout, and the counter is kept
C18_Witness ==
    \E email \in RawEmails :
        /\ last.op = "is_locked_out"
        /\ last.shown = <<"True">>
        /\ LockedNow(email)
        /\ Counter(email).attempts >= MAX_ATTEMPTS

\* C19: get_remaining_attempts(email) returns 0 during a lockout and
\* otherwise 5 minus the failure count (5 when there is no counter state or
\* the lockout has expired, 1 after the 4th failure inside one window).
C19_Step ==
    (last'.op = "get_remaining_attempts") =>
    \A email \in RawEmails : call_get_remaining_attempts(email) =>
        last'.shown =
            IF LockedNow(email) THEN <<"0">>
            ELSE IF login_attempts[_get_lockout_key(email)] = None \/ LockoutPassed(email)
                 THEN <<ToString(MAX_ATTEMPTS)>>
            ELSE <<ToString(MAX_ATTEMPTS - Counter(email).attempts)>>

C19_RemainingAttempts == [][C19_Step]_vars

\* spellings of the first account's address that differ in letter case and in
\* surrounding blanks only
SpellingsOfA == { <<"a">>, <<"A">>, <<" ", "a">>, <<"A", " ">>, <<" ", "A", " ">> }

\* C20 (keys): the spellings of one address have one key, and addresses that
\* differ otherwise have different keys.
C20_Keys ==
    /\ \A e \in SpellingsOfA : _get_lockout_key(e) = <<"a">>
    /\ \A e \in SpellingsOfA : _get_lockout_key(e) # _get_lockout_key(<<"b">>)
    /\ \A e \in SpellingsOfA :
          record_failed_attempt(login_attempts, e, now)
             = record_failed_attempt(login_attempts, <<"a">>, now)

\* C20 (frame): a limiter operation on an e-mail changes no counter but the
\* one of that e-mail's key, and a failure recorded under one spelling is
\* counted on the key the other spellings read.
C20_Step ==
    (last'.op \in {"record_failed_attempt", "record_successful_login",
                   "is_locked_out", "get_remaining_attempts"}) =>
    \A email \in RawEmails :
        /\ (\/ call_record_failed_attempt(email)
            \/ call_record_successful_login(email)
            \/ call_is_locked_out(email)
            \/ call_get_remaining_attempts(email))
           => \A e2 \in RawEmails :
                 _get_lockout_key(e2) # _get_lockout_key(email)
                 => login_attempts'[_get_lockout_key(e2)]
                       = login_attempts[_get_lockout_key(e2)]
        /\ call_record_failed_attempt(email)
           => \A e2 \in RawEmails :
                 str_strip(str_lower(e2)) = str_strip(str_lower(email))
                 => /\ login_attempts'[_get_lockout_key(e2)] # None
                    /\ Get(login_attempts'[_get_lockout_key(e2)]).attempts >= 1

\* C20: counters are keyed by the lowercased, trimmed e-mail: spellings that
\* differ only in case or surrounding blanks share one counter, and no
\* limiter operation on one e-mail changes the counter of an e-mail with a
\* different normalised form.
C20_KeyedByNormalisedEmail == []C20_Keys /\ [][C20_Step]_vars

\* two addresses with counters of their own: three failures on one, one on
\* the other
C20_Witness ==
    /\ last.op = "record_failed_attempt"
    /\ login_attempts[<<"a">>] # None /\ login_attempts[<<"b">>] # None
    /\ Get(login_attempts[<<"a">>]).attempts = 3
    /\ Get(login_attempts[<<"b">>]).attempts = 1

\* the elements of a sequence
Range(s) == {s[i] : i \in 1..Len(s)}

\* the call has returned a list
Returned == frame # None /\ Get(frame).pc = "returned" /\ Get(frame).ret # None

\* the orders of a set of pages of a shop of n pages
OrdersOf(pages, n) == UNION {Range(PageOrders(p, n)) : p \in pages}

\* C21: when every page request succeeds, the list fetch_orders returns holds
\* exactly the orders of pages 1..N, each once, in whatever order the
\* fetches of pages 2..N completed on the three workers.
C21_AllPagesOnce ==
    /\ frame # None => Cardinality(Get(frame).running) <= MAX_WORKERS
    /\ (Returned /\ \A p \in 1..Get(frame).n : Get(frame).script[p] \in GoodScripts) =>
          LET f == Get(frame)
              ret == Get(f.ret)
          IN /\ Range(ret) = OrdersOf(1..f.n, f.n)
             /\ \A i, j \in 1..Len(ret) : ret[i] = ret[j] => i = j

\* five pages fetched with page 3's orders collected before page 2's
C21_Witness ==
    /\ Returned
    /\ Get(frame).n = 5
    /\ \A p \in 1..5 : Get(frame).script[p] \in GoodScripts
    /\ Len(Get(Get(frame).ret)) = 9
    /\ Get(Get(frame).ret)[3] = 31

\* C22: when the request for one page p fails on all its retries, the fetch
\* returns (it does not raise) the orders of all the other pages and none of
\* page p.
C22_OtherPagesReturned ==
    Returned =>
    \A p \in 1..Get(frame).n :
        (/\ Get(frame).script[p] \in BadScripts
         /\ \A q \in (1..Get(frame).n) \ {p} : Get(frame).script[q] \in GoodScripts)
        => Range(Get(Get(frame).ret)) = OrdersOf((1..Get(frame).n) \ {p}, Get(frame).n)

\* C23 (step): a reset request returns success whatever the address and
\* whether or not the provider's call raised, and leaves the session alone.
C23_Step ==
    (last'.op = "send_password_reset_email") =>
        /\ last'.login_ret # None /\ Get(last'.login_ret).success
        /\ UNCHANGED session_vars

\* C23 (flag): the success flag is the same for an address with an account
\* and for one without, whether or not the provider's call raised.
C23_SameFlag ==
    \A e1, e2 \in ResetEmails, r1, r2 \in BOOLEAN :
        (account_exists(e1) /\ ~account_exists(e2))
        => /\ send_password_reset_email_return(e1, r1).success
           /\ send_password_reset_email_return(e2, r2).success

\* C23: send_password_reset_email reports success for every e-mail, with or
\* without an account and whether or not the Credential Store call throws:
\* the flag is the same for an address with an account and for one without.
C23_ResetAlwaysSucceeds == []C23_SameFlag /\ [][C23_Step]_vars

\* a request whose provider call raised, still reported as a success
C23_Witness ==
    /\ last.op = "send_password_reset_email"
    /\ Get(last.login_ret).success
    /\ last.shown =
         <<"If an account exists with this email, you will receive a password reset link.">>
    /\ \E e \in ResetEmails : ~account_exists(e)

\* C24: load_module(k) reaches the import and show() of a feature module only
\* when the session is authenticated, k is in ALLOWED_MODULES and
\* has_module_access(k) holds, and the three tests are made in that order:
\* an unauthenticated call stops at the first whatever k is, and a key
\* outside the whitelist stops at the second even in an Admin session, which
\* has access to every key.
C24_ImportOnlyWhitelisted ==
    \A k \in RouteKeys \cup ALLOWED_MODULES :
        /\ load_module(k)[1] = "show" =>
              /\ authenticated
              /\ k \in ALLOWED_MODULES
              /\ has_module_access(k)
              /\ load_module(k) = <<"show", k>>
        /\ ~authenticated => load_module(k) = <<"Authentication required">>
        /\ (authenticated /\ k \notin ALLOWED_MODULES)
              => load_module(k) = <<"Access denied: Invalid module">>
        /\ (authenticated /\ k \in ALLOWED_MODULES /\ ~has_module_access(k))
              => load_module(k) =
                    <<"Access denied: You don't have permission to access this module">>

\* an Admin session, with access to every key, turned away at the whitelist
\* for a key outside it and let through for a key inside it
C24_Witness ==
    /\ authenticated /\ is_admin
    /\ has_module_access("no_such_module")
    /\ load_module("no_such_module") = <<"Access denied: Invalid module">>
    /\ load_module("mrp_label_generator") = <<"show", "mrp_label_generator">>

\* C25: is_locked_out and get_remaining_attempts complete normally on every
\* counter state record_failed_attempt produces, and with 1 to 4 failures and
\* no lockout set is_locked_out returns false.
C25_LimiterCompletesNormally ==
    /\ last.op \in {"is_locked_out", "get_remaining_attempts"}
          => last.shown # <<"TypeError">>
    /\ \A email \in RawEmails :
          (/\ login_attempts[_get_lockout_key(email)] # None
           /\ Counter(email).locked_until = None)
          => /\ ~is_locked_out_raises(login_attempts, email, now)
             /\ ~is_locked_out(login_attempts, email, now)

\* C26 (step): no handle_login step changes the counter of an e-mail that is
\* locked out: not the attempt count, the window start or the lockout-until
\* time, whichever e-mail and password the attempt is made with.
C26_Step ==
    (last'.op = "handle_login") =>
    \A email \in RawEmails : LockedNow(email) =>
        /\ login_attempts'[_get_lockout_key(email)] = login_attempts[_get_lockout_key(email)]
        /\ \A password \in Passwords, fault \in ProviderFaults :
              handle_login_body(email, password, fault, TRUE, TRUE)
              => login_attempts' = login_attempts

\* C26: attempts made through handle_login during a lockout leave the
\* counter unchanged, so the lockout ends at the time the 5th failure set.
C26_LockoutNotExtended == [][C26_Step]_vars

\* an attempt turned away late in a lockout: the lockout still ends 300
\* seconds after the 5th failure, which is sooner than 300 seconds from now
C26_Witness ==
    \E email \in RawEmails :
        /\ last.op = "handle_login" /\ last.shown = <<"lockout">>
        /\ LockedNow(email)
        /\ Counter(email).attempts = MAX_ATTEMPTS
        /\ now > Get(Counter(email).first_attempt)
        /\ Get(Counter(email).locked_until)
              = Get(Counter(email).first_attempt) + LOCKOUT_DURATION_SECONDS


\* C27: whatever record_failed_attempt, record_successful_login and
\* is_locked_out calls were made, every counter that exists has a
\* lockout-until time set exactly when its attempt count is at least 5.
C27_LockedIffFiveAttempts ==
    \A key \in LockoutKeys :
        login_attempts[key] # None =>
            (Get(login_attempts[key]).locked_until # None
             <=> Get(login_attempts[key]).attempts >= MAX_ATTEMPTS)

\* both sides happen: one counter past the threshold with a lockout-until
\* time, another below it with none
C27_Witness ==
    \E k1, k2 \in LockoutKeys :
        /\ login_attempts[k1] # None /\ login_attempts[k2] # None
        /\ Get(login_attempts[k1]).attempts > MAX_ATTEMPTS
        /\ Get(login_attempts[k1]).locked_until # None
        /\ Get(login_attempts[k2]).attempts = MAX_ATTEMPTS - 1
        /\ Get(login_attempts[k2]).locked_until = None


\* C28: in every state between session operations, authenticated is true
\* exactly when the session holds a user and a profile (the two are set and
\* cleared together), and a session that is not authenticated has an empty
\* accessible-module list, is no admin and has access to no module key.
C28_AuthenticatedIffUserAndProfile ==
    /\ authenticated <=> (user # None /\ profile # None)
    /\ (user = None) <=> (profile = None)
    /\ ~authenticated =>
          /\ accessible_modules = <<>>
          /\ ~is_admin
          /\ \A k \in RouteKeys : ~has_module_access(k)

\* a failed login on a session that a user had logged into and out of: all
\* three operations completed, and the session holds nothing
C28_Witness ==
    /\ last.op = "handle_login"
    /\ last.login_ret # None
    /\ ~Get(last.login_ret).success
    /\ ~authenticated /\ user = None /\ profile = None
    /\ Len(activity_logs) = 2
    /\ activity_logs[1].action_type = "login"
    /\ activity_logs[2].action_type = "logout"


\* C29: the sequential paginated fetches issue at most max_retries = 3
\* requests for any single page, so a page that answers 429 to every request
\* is given up after a bounded number of requests.
C29_AtMostMaxRetriesPerPage ==
    (frame # None /\ Get(frame).fn \in {"fetch_orders", "fetch_wc_products"})
        => Get(frame).page_requests <= max_retries


\* C30: during single-batch label generation every progress fraction
\* (row index + 1) / (number of cleaned rows) is at most 1, whatever rows
\* the cleaning removed, and the generation that has returned yields a PDF
\* of one page per cleaned row.
C30_ProgressAtMostOne ==
    (frame # None /\ Get(frame).fn = "create_pdf_with_progress") =>
        /\ Get(frame).progress[1] <= Get(frame).progress[2]
        /\ Get(frame).pc = "returned" =>
              Get(frame).pdf_data = Some(Len(Get(frame).df))

====
